---- MODULE Spec2Model ----
(***************************************************************************)
(* HR Autopilot: the model-backed workflows (GPTService,                   *)
(* LeaveApprovalWorkflow, ComplianceCheckWorkflow, OnboardingWorkflow) and *)
(* the hackathon agents (FastApprovalAgent, EmergencyOverrideAgent).       *)
(*                                                                         *)
(* JavaScript runs each handler to its next `await` without interleaving,  *)
(* so an asynchronous workflow is two steps: the call (everything up to    *)
(* and including model.invoke) and the resumption (everything after the    *)
(* reply or the provider failure).  upgradeToGPT4 may run between the two. *)
(*                                                                         *)
(* Dates are days of January 2024 (1 = Mon 2024-01-01); 0 is a missing     *)
(* date.  Confidence values are in hundredths (90 = 0.9).  An optional     *)
(* JavaScript value is a sequence: <<v>> when present, <<>> when           *)
(* undefined.  Timestamps are left out.                                    *)
(***************************************************************************)
EXTENDS Integers, Sequences, FiniteSets, TLC

\* ------------------------------------------------------------------ bounds
MaxDate == 7
MaxInvocations == 2
MaxUpgrades == 1
MaxClearance == 4

\* ------------------------------------------------------- program constants
FAST_APPROVAL_THRESHOLD_DAYS == 3
millisecondsPerDay == 86400000

\* ------------------------------------------------------------- input sets
Dates == 0..MaxDate
Requests == [id : {"req-1"}, startDate : Dates, endDate : Dates]
Managers == [id : {"mgr-1"}, clearanceLevel : 0..MaxClearance]
Justifications == {"payroll outage"}
NoRequest == [id |-> "none", startDate |-> 0, endDate |-> 0]

Some(v) == <<v>>
None == <<>>

\* ---------------------------------------------------------- model replies
RawText == "Sorry, I cannot help with that."
RawDecisionOk == "{\"decision\":\"APPROVED\",\"reason\":\"ok\",\"confidence\":0.9}"
RawStatusOk == "{\"status\":\"DENIED\",\"reason\":\"low coverage\",\"confidence\":0.5}"
RawOffSchema == "{\"decision\":\"MAYBE\",\"status\":\"MAYBE\",\"reason\":\"unsure\",\"confidence\":1.5}"
RawIssues == "{\"issues\":[{\"type\":\"HOURS\",\"severity\":\"HIGH\",\"description\":\"over 40h\"}]}"
RawPlan == "{\"plan\":[{\"day\":1,\"activities\":[\"intro\"],\"goals\":[\"meet team\"]}]}"
RawNull == "null"

RawReplies == {RawText, RawDecisionOk, RawStatusOk, RawOffSchema, RawIssues, RawPlan, RawNull}

\* What the provider hands back to an awaiting call: a reply text, or a
\* rejection of the promise (network failure, rate limit, non-2xx).
ProviderFailure == [failed |-> TRUE, content |-> "provider unavailable"]
Responses == {[failed |-> FALSE, content |-> r] : r \in RawReplies} \cup {ProviderFailure}

\* JSON.parse on the reply texts above: ok = FALSE is a SyntaxError.
JSONparse(raw) ==
  CASE raw = RawDecisionOk -> [ok |-> TRUE, isNull |-> FALSE,
                               obj |-> [decision |-> "APPROVED", reason |-> "ok", confidence |-> 90]]
    [] raw = RawStatusOk   -> [ok |-> TRUE, isNull |-> FALSE,
                               obj |-> [status |-> "DENIED", reason |-> "low coverage", confidence |-> 50]]
    [] raw = RawOffSchema  -> [ok |-> TRUE, isNull |-> FALSE,
                               obj |-> [decision |-> "MAYBE", status |-> "MAYBE", reason |-> "unsure", confidence |-> 150]]
    [] raw = RawIssues     -> [ok |-> TRUE, isNull |-> FALSE,
                               obj |-> [issues |-> <<[type |-> "HOURS", severity |-> "HIGH", description |-> "over 40h"]>>]]
    [] raw = RawPlan       -> [ok |-> TRUE, isNull |-> FALSE,
                               obj |-> [plan |-> <<[day |-> 1]>>]]
    [] raw = RawNull       -> [ok |-> TRUE, isNull |-> TRUE, obj |-> [reason |-> "null"]]
    [] OTHER               -> [ok |-> FALSE, isNull |-> FALSE, obj |-> [reason |-> "SyntaxError"]]

\* Property access o.k on a parsed object: undefined when the key is absent.
Get(o, k) == IF k \in DOMAIN o THEN Some(o[k]) ELSE None

\* ------------------------------------------------------------ error values
\* An Error is its message, kept as the sequence of the pieces the template
\* literal concatenates.
Threw(msg) == [ok |-> FALSE, value |-> None, error |-> msg]
Returned(v) == [ok |-> TRUE, value |-> Some(v), error |-> <<>>]

\* HRDecision without a metadata field.
NoMetadata == [none |-> TRUE]

\* ------------------------------------------------------------- BaseAgent
validateRequest(request) ==
  IF request.startDate = 0 \/ request.endDate = 0
    THEN Threw(<<"Missing required dates in leave request">>)
  ELSE IF request.startDate > request.endDate
    THEN Threw(<<"Start date cannot be after end date">>)
  ELSE Returned("void")

\* Date.getDay: 0 = Sunday .. 6 = Saturday (day 1 is a Monday).
getDay(d) == d % 7

RECURSIVE countBusinessDays(_, _, _)
countBusinessDays(current, end, count) ==
  IF current <= end
    THEN countBusinessDays(current + 1, end,
           IF getDay(current) # 0 /\ getDay(current) # 6 THEN count + 1 ELSE count)
    ELSE count

BaseAgent_calculateBusinessDays(start, end) == countBusinessDays(start, end, 0)

\* BaseAgent.handleError: one AGENT_ERROR audit event and an ERROR decision.
BaseAgent_handleError(errorMessage, context) ==
  [audit |-> [event |-> "AGENT_ERROR", context |-> context, error |-> errorMessage, model |-> "n/a"],
   decision |-> [status |-> Some("ERROR"),
                 reason |-> <<"Failed to process request: ">> \o errorMessage,
                 metadata |-> NoMetadata]]

\* ---------------------------------------------------------- BaseWorkflow
\* baseWorkflow.ts is not part of the sources: validateInputs and handleError
\* are taken to be the shared helpers of BaseAgent.
validateInputs(request) == validateRequest(request)

BaseWorkflow_handleError(errorMessage) == BaseAgent_handleError(errorMessage, "leave-approval")

\* ------------------------------------------------------------ GPTService
\* The catch block forgets the reply text in its message.
parseDecisionResponse_noRawText(content, thisCurrentModel) ==
  LET parsed == JSONparse(content) IN
  IF ~parsed.ok \/ parsed.isNull
    THEN Threw(<<"Failed to parse AI response">>)
    ELSE Returned([status |-> Get(parsed.obj, "decision"),
                   reason |-> Get(parsed.obj, "reason"),
                   metadata |-> [confidence |-> Get(parsed.obj, "confidence"),
                                 model |-> thisCurrentModel]])

parseDecisionResponse(content, thisCurrentModel) ==
  LET parsed == JSONparse(content) IN
  IF ~parsed.ok \/ parsed.isNull
    THEN Threw(<<"Failed to parse AI response: ", content>>)
    ELSE Returned([status |-> Get(parsed.obj, "decision"),
                   reason |-> Get(parsed.obj, "reason"),
                   metadata |-> [confidence |-> Get(parsed.obj, "confidence"),
                                 model |-> thisCurrentModel]])

toAlert(issue) == [type |-> issue.type, severity |-> issue.severity, description |-> issue.description]

parseComplianceResponse(content) ==
  LET parsed == JSONparse(content) IN
  IF ~parsed.ok \/ parsed.isNull \/ Get(parsed.obj, "issues") = None
    THEN Threw(<<"Failed to parse compliance response: ", content>>)
    ELSE Returned([i \in DOMAIN parsed.obj.issues |-> toAlert(parsed.obj.issues[i])])

\* createResponse: the usage record handed to costTracker.trackUsage and the
\* GPTResponse returned; both read this.currentModel when they are built.
createResponse(data, operation, thisCurrentModel) ==
  [usage |-> [model |-> thisCurrentModel, operation |-> operation],
   response |-> [data |-> data, metadata |-> [model |-> thisCurrentModel]]]

\* GPTService.handleError: one GPT_ERROR audit event, then it throws.
GPTService_handleError(errorMessage, context, thisCurrentModel) ==
  [audit |-> [event |-> "GPT_ERROR", context |-> context, error |-> errorMessage, model |-> thisCurrentModel],
   thrown |-> <<"[GPTService] ">> \o errorMessage]

\* ------------------------------------------------- LeaveApprovalWorkflow
parseResponse(content) ==
  LET parsed == JSONparse(content) IN
  IF ~parsed.ok \/ parsed.isNull
    THEN Threw(<<"Failed to parse AI response: ", content>>)
    ELSE Returned([status |-> Get(parsed.obj, "status"),
                   reason |-> Get(parsed.obj, "reason"),
                   metadata |-> [confidence |-> Get(parsed.obj, "confidence")]])

\* ----------------------------------------------- ComplianceCheckWorkflow
scanParse(response) ==
  LET parsed == JSONparse(response) IN
  IF ~parsed.ok \/ parsed.isNull \/ Get(parsed.obj, "issues") = None
    THEN Threw(<<"Failed to parse compliance scan results: ", response>>)
    ELSE Returned([i \in DOMAIN parsed.obj.issues |->
                     [type |-> parsed.obj.issues[i].type,
                      severity |-> parsed.obj.issues[i].severity,
                      description |-> parsed.obj.issues[i].description,
                      status |-> "OPEN"]])

\* ---------------------------------------------------- OnboardingWorkflow
planParse(content) ==
  LET parsed == JSONparse(content) IN
  IF ~parsed.ok \/ parsed.isNull
    THEN Threw(<<"Failed to parse onboarding plan: ", content>>)
    ELSE Returned([employeeId |-> "emp-1", activities |-> Get(parsed.obj, "plan")])

\* ----------------------------------------------------- FastApprovalAgent
\* Date.getTime, in milliseconds from the day before day 1; NaN (None) for
\* a missing date.
getTime(d) == IF d = 0 THEN None ELSE Some(d * millisecondsPerDay)

\* Math.round(a / b), b > 0: the nearest integer, halves upwards.
MathRoundDiv(a, b) == (2 * a + b) \div (2 * b)

\* The helper function of fastApproval.ts; None is NaN.
calculateBusinessDays(start, end) ==
  IF getTime(start) = None \/ getTime(end) = None
    THEN None
    ELSE Some(MathRoundDiv(getTime(end)[1] - getTime(start)[1], millisecondsPerDay))

checkLeaveDuration(request) ==
  LET daysRequested == calculateBusinessDays(request.startDate, request.endDate) IN
  daysRequested # None /\ daysRequested[1] <= FAST_APPROVAL_THRESHOLD_DAYS

checkCalendarConflicts(request) == TRUE

FastApprovalAgent_evaluate(request) ==
  LET isShortLeave == checkLeaveDuration(request)
      hasNoConflicts == checkCalendarConflicts(request) IN
  IF isShortLeave /\ hasNoConflicts
    THEN [demo |-> <<<<"Fast-track approved leave for ", "emp-1">>>>,
          decision |-> [status |-> Some("APPROVED"),
                        reason |-> <<"Qualifies for demo fast-track approval">>,
                        metadata |-> [fastTracked |-> TRUE]]]
    ELSE [demo |-> <<>>,
          decision |-> [status |-> Some("PENDING"),
                        reason |-> <<"Does not meet fast-track criteria">>,
                        metadata |-> NoMetadata]]

\* ------------------------------------------------ EmergencyOverrideAgent
\* Off by one: level 2 is let through.
isAuthorizedForOverride_level2(manager) == manager.clearanceLevel >= 2

isAuthorizedForOverride(manager) == manager.clearanceLevel >= 3

\* The audit record is written before the authorization check.
forceApprove_auditFirst(request, manager, justification) ==
  [overrides |-> <<[requestId |-> request.id, managerId |-> manager.id,
                    justification |-> justification]>>,
   result |-> IF ~isAuthorizedForOverride(manager)
                THEN Threw(<<"Manager not authorized for emergency overrides">>)
                ELSE Returned([status |-> Some("APPROVED"),
                               reason |-> <<"Emergency override: ", justification>>,
                               metadata |-> [overriddenBy |-> manager.id,
                                             normalPolicy |-> "Bypassed for demo purposes"]])]

forceApprove(request, manager, justification) ==
  IF ~isAuthorizedForOverride(manager)
    THEN [overrides |-> <<>>,
          result |-> Threw(<<"Manager not authorized for emergency overrides">>)]
    ELSE [overrides |-> <<[requestId |-> request.id, managerId |-> manager.id,
                           justification |-> justification]>>,
          result |-> Returned([status |-> Some("APPROVED"),
                               reason |-> <<"Emergency override: ", justification>>,
                               metadata |-> [overriddenBy |-> manager.id,
                                             normalPolicy |-> "Bypassed for demo purposes"]])]

\* ------------------------------------------------------------------ state
\* The collaborators (AuditLogger, CostTracker, AuditService, logDemoEvent)
\* are write-only sinks: the model keeps the records the invocation in the
\* slot has handed to each, and the number of records each sink holds.
VARIABLES
  call,          \* the invocation in progress or last finished
  currentModel,  \* GPTService.currentModel
  ENABLE_GPT4,   \* process.env.ENABLE_GPT4 === 'true'
  demoMode,      \* the deployment's demo-mode feature flag
  auditCount,    \* events received by AuditLogger.log
  costCount,     \* records received by CostTracker.trackUsage
  overrideCount, \* records received by AuditService.logOverride
  demoCount,     \* messages received by logDemoEvent
  started,       \* invocations started so far
  upgrades       \* upgradeToGPT4 calls so far

vars == <<call, currentModel, ENABLE_GPT4, demoMode, auditCount, costCount, overrideCount, demoCount, started, upgrades>>

NoManager == [id |-> "none", clearanceLevel |-> 0]
Pending == [ok |-> FALSE, value |-> None, error |-> <<>>]

Idle == [op |-> "none", pc |-> "idle", request |-> NoRequest, manager |-> NoManager,
         sentModel |-> None, modelCalls |-> 0, response |-> None, outcome |-> Pending,
         audit |-> <<>>, cost |-> <<>>, overrides |-> <<>>, demo |-> <<>>]

Init ==
  /\ call = Idle
  /\ currentModel = "gpt-3.5-turbo"
  /\ ENABLE_GPT4 \in BOOLEAN
  /\ demoMode \in BOOLEAN
  /\ auditCount = 0
  /\ costCount = 0
  /\ overrideCount = 0
  /\ demoCount = 0
  /\ started = 0
  /\ upgrades = 0

\* A caller starts an invocation when the slot is free.
CanStart == call.pc = "idle" /\ started < MaxInvocations

\* The caller has consumed the returned value or the thrown error.
Complete ==
  /\ call.pc = "done"
  /\ call' = Idle
  /\ UNCHANGED <<currentModel, ENABLE_GPT4, demoMode, auditCount, costCount, overrideCount, demoCount, started, upgrades>>

Begin(op, request, manager) ==
  [Idle EXCEPT !.op = op, !.pc = "awaiting", !.request = request, !.manager = manager]

\* createModelInstance: a ChatOpenAI bound to the model selected right now.
createModelInstance == currentModel

\* await model.invoke(...): the request leaves for the provider.
Invoke(c, model) == [c EXCEPT !.sentModel = Some(model), !.modelCalls = c.modelCalls + 1]

\* --------------------------------------------- GPTService.upgradeToGPT4
UpgradeToGPT4 ==
  /\ upgrades < MaxUpgrades
  /\ upgrades' = upgrades + 1
  /\ IF ENABLE_GPT4
       THEN /\ currentModel' = "gpt-4-turbo"
            /\ auditCount' = auditCount + 1
       ELSE UNCHANGED <<currentModel, auditCount>>
  /\ UNCHANGED <<call, ENABLE_GPT4, demoMode, costCount, overrideCount, demoCount, started>>

\* --------------------------------------- GPTService.evaluateLeaveRequest
\* Up to `await model.invoke(messages)`: no validation precedes the call.
EvaluateLeaveRequestCall(request) ==
  /\ CanStart
  /\ call' = Invoke(Begin("evaluateLeaveRequest", request, NoManager), createModelInstance)
  /\ started' = started + 1
  /\ UNCHANGED <<currentModel, ENABLE_GPT4, demoMode, auditCount, costCount, overrideCount, demoCount, upgrades>>

\* The rest of the try block after the await, and the catch block: result is
\* what model.invoke and the parser gave, a value or an error.
GPTResume(response, result, context) ==
  /\ call.pc = "awaiting"
  /\ IF result.ok
       THEN LET r == createResponse(result.value[1], call.op, currentModel) IN
            /\ costCount' = costCount + 1
            /\ call' = [call EXCEPT !.pc = "done", !.response = Some(response),
                                    !.cost = Append(@, r.usage),
                                    !.outcome = Returned(r.response)]
            /\ UNCHANGED auditCount
       ELSE LET h == GPTService_handleError(result.error, context, currentModel) IN
            /\ auditCount' = auditCount + 1
            /\ call' = [call EXCEPT !.pc = "done", !.response = Some(response),
                                    !.audit = Append(@, h.audit),
                                    !.outcome = Threw(h.thrown)]
            /\ UNCHANGED costCount
  /\ UNCHANGED <<currentModel, ENABLE_GPT4, demoMode, overrideCount, demoCount, started, upgrades>>

EvaluateLeaveRequestResume(response) ==
  /\ call.op = "evaluateLeaveRequest"
  /\ GPTResume(response,
               IF response.failed THEN Threw(<<response.content>>)
               ELSE parseDecisionResponse(response.content, currentModel),
               "leave-request-evaluation")

\* ------------------------------------ GPTService.scanForComplianceIssues
ScanForComplianceIssuesCall ==
  /\ CanStart
  /\ call' = Invoke(Begin("scanForComplianceIssues", NoRequest, NoManager), createModelInstance)
  /\ started' = started + 1
  /\ UNCHANGED <<currentModel, ENABLE_GPT4, demoMode, auditCount, costCount, overrideCount, demoCount, upgrades>>

ScanForComplianceIssuesResume(response) ==
  /\ call.op = "scanForComplianceIssues"
  /\ GPTResume(response,
               IF response.failed THEN Threw(<<response.content>>)
               ELSE parseComplianceResponse(response.content),
               "compliance-scan")

\* ---------------------------------------- LeaveApprovalWorkflow.evaluate
\* Up to `await this.model.invoke(messages)`; a validation error is caught
\* and answered with handleError before the model is called.
LeaveEvaluateCall(request) ==
  /\ CanStart
  /\ started' = started + 1
  /\ LET valid == validateInputs(request)
         c == Begin("LeaveApprovalWorkflow.evaluate", request, NoManager) IN
     IF valid.ok
       THEN /\ call' = Invoke(c, "gpt-3.5-turbo")
            /\ UNCHANGED auditCount
       ELSE LET h == BaseWorkflow_handleError(valid.error) IN
            /\ call' = [c EXCEPT !.pc = "done", !.audit = Append(@, h.audit),
                                 !.outcome = Returned(h.decision)]
            /\ auditCount' = auditCount + 1
  /\ UNCHANGED <<currentModel, ENABLE_GPT4, demoMode, costCount, overrideCount, demoCount, upgrades>>

LeaveEvaluateResume(response) ==
  /\ call.pc = "awaiting"
  /\ call.op = "LeaveApprovalWorkflow.evaluate"
  /\ LET result == IF response.failed THEN Threw(<<response.content>>)
                   ELSE parseResponse(response.content) IN
     IF result.ok
       THEN /\ call' = [call EXCEPT !.pc = "done", !.response = Some(response),
                                    !.outcome = Returned(result.value[1])]
            /\ UNCHANGED auditCount
       ELSE LET h == BaseWorkflow_handleError(result.error) IN
            /\ call' = [call EXCEPT !.pc = "done", !.response = Some(response),
                                    !.audit = Append(@, h.audit),
                                    !.outcome = Returned(h.decision)]
            /\ auditCount' = auditCount + 1
  /\ UNCHANGED <<currentModel, ENABLE_GPT4, demoMode, costCount, overrideCount, demoCount, started, upgrades>>

\* ------------------------------------------ ComplianceCheckWorkflow.scan
ComplianceScanCall ==
  /\ CanStart
  /\ call' = Invoke(Begin("ComplianceCheckWorkflow.scan", NoRequest, NoManager), "gpt-3.5-turbo")
  /\ started' = started + 1
  /\ UNCHANGED <<currentModel, ENABLE_GPT4, demoMode, auditCount, costCount, overrideCount, demoCount, upgrades>>

\* A retry loop around the chain: a provider failure sends the request again.
ComplianceScanResume_retry(response) ==
  /\ call.pc = "awaiting"
  /\ call.op = "ComplianceCheckWorkflow.scan"
  /\ call' = IF response.failed
               THEN Invoke(call, "gpt-3.5-turbo")
               ELSE [call EXCEPT !.pc = "done", !.response = Some(response),
                                 !.outcome = scanParse(response.content)]
  /\ UNCHANGED <<currentModel, ENABLE_GPT4, demoMode, auditCount, costCount, overrideCount, demoCount, started, upgrades>>

\* The await is outside the try: a provider failure leaves as it came.
ComplianceScanResume(response) ==
  /\ call.pc = "awaiting"
  /\ call.op = "ComplianceCheckWorkflow.scan"
  /\ call' = [call EXCEPT !.pc = "done", !.response = Some(response),
                          !.outcome = IF response.failed THEN Threw(<<response.content>>)
                                      ELSE scanParse(response.content)]
  /\ UNCHANGED <<currentModel, ENABLE_GPT4, demoMode, auditCount, costCount, overrideCount, demoCount, started, upgrades>>

\* ---------------------------------------- OnboardingWorkflow.generatePlan
GeneratePlanCall ==
  /\ CanStart
  /\ call' = Invoke(Begin("OnboardingWorkflow.generatePlan", NoRequest, NoManager), "gpt-3.5-turbo")
  /\ started' = started + 1
  /\ UNCHANGED <<currentModel, ENABLE_GPT4, demoMode, auditCount, costCount, overrideCount, demoCount, upgrades>>

GeneratePlanResume(response) ==
  /\ call.pc = "awaiting"
  /\ call.op = "OnboardingWorkflow.generatePlan"
  /\ call' = [call EXCEPT !.pc = "done", !.response = Some(response),
                          !.outcome = IF response.failed THEN Threw(<<response.content>>)
                                      ELSE planParse(response.content)]
  /\ UNCHANGED <<currentModel, ENABLE_GPT4, demoMode, auditCount, costCount, overrideCount, demoCount, started, upgrades>>

\* --------------------------------------------- FastApprovalAgent.evaluate
\* Synchronous; it reads no mode flag.
FastApprovalEvaluate(request) ==
  /\ CanStart
  /\ started' = started + 1
  /\ LET r == FastApprovalAgent_evaluate(request) IN
     /\ call' = [Begin("FastApprovalAgent.evaluate", request, NoManager) EXCEPT
                   !.pc = "done", !.demo = r.demo, !.outcome = Returned(r.decision)]
     /\ demoCount' = demoCount + Len(r.demo)
  /\ UNCHANGED <<currentModel, ENABLE_GPT4, demoMode, auditCount, costCount, overrideCount, upgrades>>

\* ----------------------------------- EmergencyOverrideAgent.forceApprove
ForceApprove(request, manager, justification) ==
  /\ CanStart
  /\ started' = started + 1
  /\ LET r == forceApprove(request, manager, justification) IN
     /\ call' = [Begin("EmergencyOverrideAgent.forceApprove", request, manager) EXCEPT
                   !.pc = "done", !.overrides = r.overrides, !.outcome = r.result]
     /\ overrideCount' = overrideCount + Len(r.overrides)
  /\ UNCHANGED <<currentModel, ENABLE_GPT4, demoMode, auditCount, costCount, demoCount, upgrades>>

\* ------------------------------------------------------------------- Next
Next ==
  \/ Complete
  \/ UpgradeToGPT4
  \/ \E request \in Requests : EvaluateLeaveRequestCall(request)
  \/ \E response \in Responses : EvaluateLeaveRequestResume(response)
  \/ ScanForComplianceIssuesCall
  \/ \E response \in Responses : ScanForComplianceIssuesResume(response)
  \/ \E request \in Requests : LeaveEvaluateCall(request)
  \/ \E response \in Responses : LeaveEvaluateResume(response)
  \/ ComplianceScanCall
  \/ \E response \in Responses : ComplianceScanResume(response)
  \/ GeneratePlanCall
  \/ \E response \in Responses : GeneratePlanResume(response)
  \/ \E request \in Requests : FastApprovalEvaluate(request)
  \/ \E request \in Requests, manager \in Managers, justification \in Justifications :
       ForceApprove(request, manager, justification)

Spec == Init /\ [][Next]_vars

\* ----------------------------------------------------------------- claims
Done == call.pc = "done"

LeaveModelOps == {"evaluateLeaveRequest", "LeaveApprovalWorkflow.evaluate"}
GPTServiceOps == {"evaluateLeaveRequest", "scanForComplianceIssues"}
ModelOps == GPTServiceOps \cup {"LeaveApprovalWorkflow.evaluate", "ComplianceCheckWorkflow.scan",
                                "OnboardingWorkflow.generatePlan"}
DecisionOps == LeaveModelOps \cup {"FastApprovalAgent.evaluate", "EmergencyOverrideAgent.forceApprove"}

Statuses == {"APPROVED", "DENIED", "FLAGGED", "PENDING", "ERROR"}

DatesPresent(request) == request.startDate # 0 /\ request.endDate # 0
StartAfterEnd(request) == DatesPresent(request) /\ request.startDate > request.endDate
WellFormed(request) == DatesPresent(request) /\ request.startDate <= request.endDate

\* The HRDecision a finished decision path returned (GPTService wraps it).
ReturnedDecision ==
  IF call.op = "evaluateLeaveRequest" THEN call.outcome.value[1].data ELSE call.outcome.value[1]

ReturnedErrorDecision ==
  Done /\ call.op \in DecisionOps /\ call.outcome.ok /\ ReturnedDecision.status = Some("ERROR")

Contains(msg, piece) == \E i \in DOMAIN msg : msg[i] = piece

GotReply == Done /\ call.response # None /\ ~call.response[1].failed
GotProviderFailure == Done /\ call.response = Some(ProviderFailure)
ReplyNotJson == GotReply /\ ~JSONparse(call.response[1].content).ok
ReplyJsonObject ==
  GotReply /\ JSONparse(call.response[1].content).ok /\ ~JSONparse(call.response[1].content).isNull

\* C1: every leave-evaluation entry point that calls the model rejects a
\* request whose start date is after its end date before the model is
\* called: such an invocation never has a model call.
C1_NoModelCallForInvertedDates ==
  (call.op \in LeaveModelOps /\ StartAfterEnd(call.request)) => call.modelCalls = 0

\* C2: FastApprovalAgent.evaluate returns the fast-tracked approval if and
\* only if the request lasts at most 3 business days and the demo mode flag
\* is on; with the flag off it never approves.
C2_FastTrackIffShortAndDemoMode ==
  (Done /\ call.op = "FastApprovalAgent.evaluate" /\ WellFormed(call.request)) =>
    ((ReturnedDecision.status = Some("APPROVED") /\ Get(ReturnedDecision.metadata, "fastTracked") = Some(TRUE))
      <=> (demoMode /\ BaseAgent_calculateBusinessDays(call.request.startDate, call.request.endDate)
                         <= FAST_APPROVAL_THRESHOLD_DAYS))

\* C3: forceApprove throws the authorization error for every manager whose
\* clearance level is below 3, and every call that returns has returned
\* APPROVED and has handed exactly one record (request id, manager id,
\* justification) to logOverride.
C3_OverrideAuthorizedAndAudited ==
  (Done /\ call.op = "EmergencyOverrideAgent.forceApprove") =>
    /\ call.manager.clearanceLevel < 3 =>
         /\ ~call.outcome.ok
         /\ call.outcome.error = <<"Manager not authorized for emergency overrides">>
    /\ call.outcome.ok =>
         /\ ReturnedDecision.status = Some("APPROVED")
         /\ Len(call.overrides) = 1
         /\ call.overrides[1].requestId = call.request.id
         /\ call.overrides[1].managerId = call.manager.id
         /\ ReturnedDecision.reason = <<"Emergency override: ", call.overrides[1].justification>>

\* C3 witness: an override was granted and audited earlier, and the override
\* just attempted by a manager below level 3 was refused.
C3_Witness ==
  /\ Done /\ call.op = "EmergencyOverrideAgent.forceApprove"
  /\ call.manager.clearanceLevel = 2 /\ ~call.outcome.ok
  /\ overrideCount = 1

\* C4 (as stated): for every workflow, a reply that is not valid JSON makes
\* the invocation fail with a parse error whose message includes the reply
\* text, and nothing is returned to the caller.
C4_NotJsonAlwaysThrows ==
  (ReplyNotJson /\ call.op \in ModelOps) =>
    (~call.outcome.ok /\ Contains(call.outcome.error, call.response[1].content))

\* C4 (amended): for every workflow, a reply that is not valid JSON either
\* makes the invocation fail with a parse error whose message includes the
\* reply text or, in LeaveApprovalWorkflow.evaluate, is answered with a
\* decision of status ERROR; no other record is returned.
C4_NotJsonThrowsOrErrorDecision ==
  (ReplyNotJson /\ call.op \in ModelOps) =>
    \/ ~call.outcome.ok /\ Contains(call.outcome.error, call.response[1].content)
    \/ call.op = "LeaveApprovalWorkflow.evaluate" /\ ReturnedErrorDecision

\* C4 witness: GPTService.evaluateLeaveRequest has thrown on a reply that is
\* not JSON.
C4_Witness ==
  ReplyNotJson /\ call.op = "evaluateLeaveRequest" /\ ~call.outcome.ok

\* C5: every HRDecision a decision path returns, when the model replied with
\* a JSON object or was not asked at all, has a status among APPROVED,
\* DENIED, FLAGGED, PENDING, ERROR and a confidence, when present, in [0,1].
C5_StatusAndConfidenceInRange ==
  (Done /\ call.op \in DecisionOps /\ call.outcome.ok /\ (call.response = None \/ ReplyJsonObject)) =>
    /\ ReturnedDecision.status # None
    /\ ReturnedDecision.status[1] \in Statuses
    /\ \A c \in {Get(ReturnedDecision.metadata, "confidence")} :
         (c # None /\ c[1] # None) => (c[1][1] >= 0 /\ c[1][1] <= 100)

\* C6: LeaveApprovalWorkflow.evaluate and GPTService.evaluateLeaveRequest
\* never throw: every finished invocation has returned a record.
C6_LeaveWorkflowsNeverThrow ==
  (Done /\ call.op \in LeaveModelOps) => call.outcome.ok

\* C7: no invocation calls the model more than once, and an invocation whose
\* model call failed has ended, after that one call, in a failure (a thrown
\* error or an ERROR decision).
C7_AtMostOneModelCall ==
  /\ call.modelCalls <= 1
  /\ GotProviderFailure =>
       /\ call.modelCalls = 1
       /\ (~call.outcome.ok \/ ReturnedErrorDecision)

\* C7 witness: a workflow has ended after a provider failure.
C7_Witness ==
  GotProviderFailure /\ call.op = "ComplianceCheckWorkflow.scan" /\ ~call.outcome.ok

\* C8: an invocation that called the model and succeeded has handed exactly
\* one usage record to the cost tracker, and one that failed has reported
\* the error to the audit log.
C8_EveryModelCallReported ==
  (Done /\ call.modelCalls > 0) =>
    IF call.outcome.ok /\ ~ReturnedErrorDecision
      THEN Len(call.cost) = 1
      ELSE Len(call.audit) >= 1

\* C9: the duration FastApprovalAgent compares with the threshold is, for
\* start <= end, the number of Monday-to-Friday days in [start, end], the
\* value of BaseAgent.calculateBusinessDays.
C9_DurationIsBusinessDays ==
  (Done /\ call.op = "FastApprovalAgent.evaluate" /\ WellFormed(call.request)) =>
    /\ calculateBusinessDays(call.request.startDate, call.request.endDate)
         = Some(BaseAgent_calculateBusinessDays(call.request.startDate, call.request.endDate))
    /\ checkLeaveDuration(call.request)
         <=> (BaseAgent_calculateBusinessDays(call.request.startDate, call.request.endDate)
                <= FAST_APPROVAL_THRESHOLD_DAYS)

\* C10: the model named in the decision metadata, in the response metadata
\* and in the usage record of a GPTService call is the model the request was
\* sent to, whatever ran while the call was waiting.
C10_StampedModelIsSentModel ==
  (Done /\ call.op \in GPTServiceOps /\ call.outcome.ok) =>
    /\ call.outcome.value[1].metadata.model = call.sentModel[1]
    /\ call.cost[1].model = call.sentModel[1]
    /\ call.op = "evaluateLeaveRequest" => ReturnedDecision.metadata.model = call.sentModel[1]

\* C11: FastApprovalAgent.evaluate never returns APPROVED for a request whose
\* start date is after its end date.
C11_NoApprovalForInvertedDates ==
  (Done /\ call.op = "FastApprovalAgent.evaluate" /\ StartAfterEnd(call.request)) =>
    ~(call.outcome.ok /\ ReturnedDecision.status = Some("APPROVED"))

\* A step in which forceApprove ran, and whether it returned APPROVED.
ForceApproveStep ==
  call.pc = "idle" /\ call'.pc = "done" /\ call'.op = "EmergencyOverrideAgent.forceApprove"

OverrideApproved(c) == c.outcome.ok /\ c.outcome.value[1].status = Some("APPROVED")

\* C12: a forceApprove call by a manager whose clearance level is below 3
\* writes no audit record, returns no decision and leaves the sinks and the
\* selected model as they were; every forceApprove call adds one override
\* audit record exactly when it returns APPROVED, and no other step adds
\* one, so the records and the APPROVED override decisions stay equal in
\* number over any sequence of calls.
C12_RejectedOverrideChangesNothing ==
  [][ /\ ForceApproveStep =>
           /\ overrideCount' = overrideCount + (IF OverrideApproved(call') THEN 1 ELSE 0)
           /\ Len(call'.overrides) = (IF OverrideApproved(call') THEN 1 ELSE 0)
           /\ call'.manager.clearanceLevel < 3 =>
                /\ ~call'.outcome.ok
                /\ call'.outcome.value = None
                /\ call'.overrides = <<>>
                /\ UNCHANGED <<overrideCount, auditCount, costCount, demoCount, currentModel>>
      /\ ~ForceApproveStep => overrideCount' = overrideCount
    ]_vars

\* C12 witness: the second of two forceApprove calls was refused (clearance
\* level 1) after the first was granted: one audit record, nothing written
\* by the refused call.
C12_Witness ==
  /\ Done /\ call.op = "EmergencyOverrideAgent.forceApprove"
  /\ call.manager.clearanceLevel = 1 /\ ~call.outcome.ok /\ call.overrides = <<>>
  /\ started = 2 /\ overrideCount = 1

====
